---------------------------- MODULE Spec2Model ----------------------------
(***************************************************************************)
(* Leibniz-series evaluators of src/1-extending-ruby/leibniz/ext/leibniz/  *)
(* leibniz.c: the scalar loop normal(n) and the 4-lane AVX loop simd(n).   *)
(*                                                                         *)
(* Modelling choices                                                       *)
(*  - Integers of the program keep their width: unsigned int is 32 bits,   *)
(*    size_t 64 bits.  TLC's own integers are 32-bit and signed, so every  *)
(*    program integer is a natural number written in base 2^15 (a sequence *)
(*    of limbs, least significant first), with the arithmetic below.       *)
(*  - A double is an IEEE-754 binary64 value: sign, 53-bit significand and *)
(*    exponent, value = (-1)^sign * mant * 2^exp.  Every operation of the  *)
(*    program computes the exact result and rounds it once, to nearest,    *)
(*    ties to even.  Infinities, NaNs, subnormals and exponent overflow    *)
(*    are not represented: the evaluators never produce them (every        *)
(*    divisor is an odd integer >= 1, every value lies within 2^-40 and    *)
(*    2^60 in magnitude).                                                  *)
(*  - Every call owns one frame of locals.  A behaviour holds one call,   *)
(*    or two calls that run interleaved, one loop iteration at a time.     *)
(*  - iters, steps and terms are history fields of a frame: the number of  *)
(*    loop bodies the call has executed, the number of them the model has  *)
(*    followed, and the terms accumulated in those, in order.  The model   *)
(*    follows at most MaxSteps bodies of a call.                           *)
(*  - A run of 2^31 or 2^32 iterations cannot be enumerated state by       *)
(*    state.  Besides calls followed from their entry, the initial states  *)
(*    hold calls with a large n at a position deep in their loop, with     *)
(*    the locals the build has at that position (recorded from a run of    *)
(*    the loops of leibniz.c on x86-64); the model follows them from       *)
(*    there, through the wrap-around of the 32-bit counter.                *)
(***************************************************************************)
EXTENDS Integers, Sequences, FiniteSets, TLC

VARIABLES fn, n, pc, frame, ret

vars == <<fn, n, pc, frame, ret>>

(***************************************************************************)
(* Natural numbers of any size: limbs in base 2^15, least significant      *)
(* first, no leading zero limb (0 is the empty sequence)                   *)
(***************************************************************************)
Base == 2 ^ 15

RECURSIVE BNorm(_)
BNorm(x) ==
    IF x = <<>> THEN <<>>
    ELSE IF x[Len(x)] = 0 THEN BNorm(SubSeq(x, 1, Len(x) - 1))
    ELSE x

\* the natural number k, 0 <= k < 2^31
B(k) ==
    IF k < Base THEN (IF k = 0 THEN <<>> ELSE <<k>>)
    ELSE IF k < Base * Base THEN <<k % Base, k \div Base>>
    ELSE <<k % Base, (k \div Base) % Base, k \div (Base * Base)>>

Limb(x, j) == IF j <= Len(x) THEN x[j] ELSE 0

\* the limbs j, j+1, ... of x + y + c, c the carry into limb j
RECURSIVE BAddFrom(_, _, _, _)
BAddFrom(x, y, j, c) ==
    IF j > Len(x) /\ j > Len(y)
    THEN IF c = 0 THEN <<>> ELSE <<c>>
    ELSE <<(Limb(x, j) + Limb(y, j) + c) % Base>>
         \o BAddFrom(x, y, j + 1, (Limb(x, j) + Limb(y, j) + c) \div Base)

BAdd(x, y) == BAddFrom(x, y, 1, 0)

\* the limbs j, j+1, ... of x - y - b for x >= y, b the borrow from limb j
RECURSIVE BSubFrom(_, _, _, _)
BSubFrom(x, y, j, b) ==
    IF j > Len(x) THEN <<>>
    ELSE <<(x[j] - Limb(y, j) - b + Base) % Base>>
         \o BSubFrom(x, y, j + 1, IF x[j] - Limb(y, j) - b < 0 THEN 1 ELSE 0)

BSub(x, y) == BNorm(BSubFrom(x, y, 1, 0))

\* the greatest element of a non-empty set of integers
Max(S) == CHOOSE m \in S : \A k \in S : k <= m

\* -1, 0, 1 as x < y, x = y, x > y
BCmp(x, y) ==
    IF Len(x) < Len(y) THEN -1
    ELSE IF Len(x) > Len(y) THEN 1
    ELSE IF x = y THEN 0
    ELSE IF x[Max({j \in 1 .. Len(x) : x[j] # y[j]})]
                < y[Max({j \in 1 .. Len(x) : x[j] # y[j]})] THEN -1
    ELSE 1

BLt(x, y) == BCmp(x, y) < 0

\* the limbs j, j+1, ... of x * m + c, for a limb-sized m, 0 <= m < 2^15
RECURSIVE BMulSmallFrom(_, _, _, _)
BMulSmallFrom(x, m, j, c) ==
    IF j > Len(x) THEN (IF c = 0 THEN <<>> ELSE <<c>>)
    ELSE <<(x[j] * m + c) % Base>>
         \o BMulSmallFrom(x, m, j + 1, (x[j] * m + c) \div Base)

BMulSmall(x, m) == IF m = 0 THEN <<>> ELSE BMulSmallFrom(x, m, 1, 0)

\* k zero limbs
Zeros(k) == SubSeq(<<0, 0, 0, 0, 0, 0, 0, 0, 0, 0, 0, 0, 0, 0, 0, 0>>, 1, k)

\* x * 2^k, k < 240
BShl(x, k) ==
    IF x = <<>> THEN <<>>
    ELSE Zeros(k \div 15) \o BMulSmall(x, 2 ^ (k % 15))

\* the limbs j.. of x, each divided by 2^r with the low bits of the next
RECURSIVE BShrFrom(_, _, _)
BShrFrom(x, r, j) ==
    IF j > Len(x) THEN <<>>
    ELSE <<(x[j] \div (2 ^ r)) + (Limb(x, j + 1) % (2 ^ r)) * (2 ^ (15 - r))>>
         \o BShrFrom(x, r, j + 1)

\* floor(x / 2^k)
BShr(x, k) ==
    IF k \div 15 >= Len(x) THEN <<>>
    ELSE BNorm(BShrFrom(SubSeq(x, k \div 15 + 1, Len(x)), k % 15, 1))

\* x mod 2^k
BLow(x, k) ==
    IF k \div 15 >= Len(x) THEN x
    ELSE BNorm(SubSeq(x, 1, k \div 15) \o <<x[k \div 15 + 1] % (2 ^ (k % 15))>>)

\* number of bits of a limb
IntBitLen(k) == Cardinality({b \in 0 .. 14 : 2 ^ b <= k})

\* number of bits of x (0 for 0)
BBitLen(x) ==
    IF x = <<>> THEN 0 ELSE 15 * (Len(x) - 1) + IntBitLen(x[Len(x)])

BIsOdd(x) == x # <<>> /\ x[1] % 2 = 1

\* x * y: x times the limbs j, j+1, ... of y
RECURSIVE BMulFrom(_, _, _)
BMulFrom(x, y, j) ==
    IF j > Len(y) THEN <<>>
    ELSE BAdd(Zeros(j - 1) \o BMulSmall(x, y[j]), BMulFrom(x, y, j + 1))

BMul(x, y) == IF x = <<>> \/ y = <<>> THEN <<>> ELSE BNorm(BMulFrom(x, y, 1))

\* one digit of a long division: the largest d with y * d <= r, for a
\* divisor y whose top limb is at least Base / 2 and r < y * Base.  The
\* quotient of the two top limbs of r by the top limb of y is d, d + 1 or
\* d + 2.
BDigit(r, y) ==
    LET t   == Len(y)
        top == Limb(r, t + 1) * Base + Limb(r, t)
        est == IF top \div y[t] > Base - 1 THEN Base - 1 ELSE top \div y[t]
    IN  IF BCmp(BMulSmall(y, est), r) <= 0 THEN est
        ELSE IF BCmp(BMulSmall(y, est - 1), r) <= 0 THEN est - 1
        ELSE est - 2

\* long division of the limbs j, j-1, ..., 1 of x by y: r is the remainder
\* and q the quotient of the limbs above j.  The remainder of every step is
\* below y.
RECURSIVE BDivFrom(_, _, _, _, _)
BDivFrom(x, y, j, r, q) ==
    IF j = 0 THEN <<q, r>>
    ELSE LET r1 == BNorm(<<x[j]>> \o r)
             d  == BDigit(r1, y)
             r2 == BSub(r1, BMulSmall(y, d))
         IN  IF BLt(r2, y) THEN BDivFrom(x, y, j - 1, r2, <<d>> \o q)
             ELSE <<q, r2>>

\* <<floor(x / y), x mod y>> for y > 0: both are scaled by 2^s to bring the
\* top limb of y to Base / 2 or more, which leaves the quotient as it is
BDivMod(x, y) ==
    LET s  == 15 - IntBitLen(y[Len(y)])
        xs == BShl(x, s)
        ys == BShl(y, s)
        hi == IF Len(xs) < Len(ys) THEN Len(xs) ELSE Len(ys) - 1
        qr == BDivFrom(xs, ys, Len(xs) - hi,
                       BNorm(SubSeq(xs, Len(xs) - hi + 1, Len(xs))), <<>>)
    IN  <<BNorm(qr[1]), BShr(qr[2], s)>>

(***************************************************************************)
(* unsigned int (32 bits) and size_t (64 bits)                             *)
(***************************************************************************)
UIntBits == 32

\* unsigned int arithmetic wraps modulo 2^32
UIntAdd(a, b) == BLow(BAdd(a, b), UIntBits)

UIntMul(a, b) == BLow(BMul(a, b), UIntBits)

(***************************************************************************)
(* double: IEEE-754 binary64, round to nearest, ties to even               *)
(***************************************************************************)
\* bits of the significand
MantBits == 53

PosZero == [sign |-> 0, exp |-> 0, mant |-> <<>>]

IsZero(x) == x.mant = <<>>

\* (-1)^sg * (M [+ a fraction of a unit when sticky]) * 2^e, M > 0, rounded
\* to 53 significant bits; sticky needs M of 55 bits or more
Round(sg, M, e, sticky) ==
    LET L == BBitLen(M) IN
    IF L <= MantBits
    THEN [sign |-> sg, exp |-> e - (MantBits - L), mant |-> BShl(M, MantBits - L)]
    ELSE LET k    == L - MantBits
             q    == BShr(M, k)
             c    == BCmp(BLow(M, k), BShl(<<1>>, k - 1))
             up   == c > 0 \/ (c = 0 /\ (sticky \/ BIsOdd(q)))
             q2   == IF up THEN BAdd(q, <<1>>) ELSE q
         IN  IF BBitLen(q2) > MantBits
             THEN [sign |-> sg, exp |-> e + k + 1, mant |-> BShr(q2, 1)]
             ELSE [sign |-> sg, exp |-> e + k, mant |-> q2]

\* conversion of an unsigned integer to double
ToDouble(x) == IF x = <<>> THEN PosZero ELSE Round(0, x, 0, FALSE)

\* the double literal k.0, k a small integer
D(k) ==
    IF k = 0 THEN PosZero
    ELSE IF k < 0 THEN Round(1, B(-k), 0, FALSE)
    ELSE Round(0, B(k), 0, FALSE)

DNeg(x) == [x EXCEPT !.sign = 1 - @]

\* the exact sum of two nonzero values (-1)^sign * mant * 2^exp, mant of any
\* size, as such a value (mant = <<>> when they cancel).  An operand more
\* than 64 bits below the other's lowest bit is moved up to 64 bits below:
\* it stays under a quarter of the last place, so the rounding is the same.
ExactAdd(x, y) ==
    LET hi == IF x.exp >= y.exp THEN x ELSE y
        lo == IF x.exp >= y.exp THEN y ELSE x
        gap == hi.exp - lo.exp
        far == gap > BBitLen(lo.mant) + 64
        d  == IF far THEN BBitLen(lo.mant) + 64 ELSE gap
        H  == BShl(hi.mant, d)
        e  == hi.exp - d
        c  == BCmp(H, lo.mant)
    IN  IF hi.sign = lo.sign
        THEN [sign |-> hi.sign, exp |-> e, mant |-> BAdd(H, lo.mant)]
        ELSE IF c = 0 THEN [sign |-> 0, exp |-> 0, mant |-> <<>>]
        ELSE IF c > 0 THEN [sign |-> hi.sign, exp |-> e, mant |-> BSub(H, lo.mant)]
        ELSE [sign |-> lo.sign, exp |-> e, mant |-> BSub(lo.mant, H)]

\* rounding of an exact value
RoundExact(v) ==
    IF v.mant = <<>> THEN PosZero ELSE Round(v.sign, v.mant, v.exp, FALSE)

\* the exact sum with zeros taken care of: -0 only for (-0) + (-0)
ExactAddZ(x, y) ==
    IF IsZero(x) /\ IsZero(y)
    THEN [sign |-> IF x.sign = 1 /\ y.sign = 1 THEN 1 ELSE 0, exp |-> 0, mant |-> <<>>]
    ELSE IF IsZero(x) THEN y
    ELSE IF IsZero(y) THEN x
    ELSE ExactAdd(x, y)

\* x + y
DAdd(x, y) ==
    IF IsZero(x) /\ IsZero(y) THEN ExactAddZ(x, y) ELSE RoundExact(ExactAddZ(x, y))

\* the exact product
ExactMul(x, y) ==
    [sign |-> (x.sign + y.sign) % 2,
     exp  |-> IF IsZero(x) \/ IsZero(y) THEN 0 ELSE x.exp + y.exp,
     mant |-> BMul(x.mant, y.mant)]

\* x * y
DMul(x, y) ==
    LET p == ExactMul(x, y)
    IN  IF p.mant = <<>> THEN p ELSE RoundExact(p)

\* x / y for y # 0: 56 or 57 quotient bits, the remainder as sticky bit
DDiv(x, y) ==
    IF IsZero(x) THEN [sign |-> (x.sign + y.sign) % 2, exp |-> 0, mant |-> <<>>]
    ELSE LET qr == BDivMod(BShl(x.mant, 56), y.mant)
         IN  IF qr[2] = <<>>
             THEN Round((x.sign + y.sign) % 2, qr[1], x.exp - 56 - y.exp, FALSE)
             ELSE Round((x.sign + y.sign) % 2, qr[1], x.exp - 56 - y.exp, TRUE)

\* a * b + c with a single rounding
DFma(a, b, c) ==
    LET p == ExactMul(a, b)
        s == ExactAddZ(p, c)
    IN  IF s.mant = <<>> THEN s ELSE RoundExact(s)


\* the double with the IEEE-754 bit pattern w3 w2 w1 w0 (16-bit words, most
\* significant first); zero or a normal number
FromBits(w3, w2, w1, w0) ==
    LET sg == w3 \div (2 ^ 15)
        e  == (w3 % (2 ^ 15)) \div 16
        fr == BAdd(BShl(B(w3 % 16), 48),
                   BAdd(BShl(B(w2), 32), BAdd(BShl(B(w1), 16), B(w0))))
    IN  IF e = 0 THEN [sign |-> sg, exp |-> 0, mant |-> <<>>]
        ELSE [sign |-> sg, exp |-> e - 1075,
              mant |-> BAdd(BShl(<<1>>, MantBits - 1), fr)]

\* the integer value of a double that holds a natural number
DToBig(x) ==
    IF IsZero(x) THEN <<>>
    ELSE IF x.exp >= 0 THEN BShl(x.mant, x.exp)
    ELSE BShr(x.mant, -x.exp)

\* +1 or -1, the sign of a double
DSign(x) == IF x.sign = 0 THEN 1 ELSE -1

(***************************************************************************)
(* __m256d: four doubles, element k is v[k] (element 0 the lowest)         *)
(***************************************************************************)
Lanes == 0 .. 3

\* the vector with elements e0, e1, e2, e3
Vec(e0, e1, e2, e3) == 0 :> e0 @@ 1 :> e1 @@ 2 :> e2 @@ 3 :> e3

\* _mm256_set_pd(e3, e2, e1, e0): the FIRST argument is the HIGHEST element
SetPdSwapped(e3, e2, e1, e0) == Vec(e3, e2, e1, e0)

SetPd(e3, e2, e1, e0) == Vec(e0, e1, e2, e3)

Set1Pd(a) == Vec(a, a, a, a)

SetZeroPd == Vec(PosZero, PosZero, PosZero, PosZero)

\* _mm256_fmadd_pd(a, b, c) = a * b + c, lane by lane, rounded once
FmaddPd(a, b, c) ==
    Vec(DFma(a[0], b[0], c[0]), DFma(a[1], b[1], c[1]),
        DFma(a[2], b[2], c[2]), DFma(a[3], b[3], c[3]))

DivPd(a, b) ==
    Vec(DDiv(a[0], b[0]), DDiv(a[1], b[1]), DDiv(a[2], b[2]), DDiv(a[3], b[3]))

AddPd(a, b) ==
    Vec(DAdd(a[0], b[0]), DAdd(a[1], b[1]), DAdd(a[2], b[2]), DAdd(a[3], b[3]))

(***************************************************************************)
(* Frames: the locals of one call.  Each call has its own (automatic       *)
(* storage, leibniz.c:4-5 and 16-24); no evaluator has a static or global. *)
(***************************************************************************)
Calls == {1, 2}

FrameStatic(c) == 1

Frame(c) == c

\* a frame before the call has initialised its locals
BlankFrame ==
    [pi |-> PosZero, signal |-> PosZero, i |-> <<>>,
     signal_vector |-> SetZeroPd, one_vector |-> SetZeroPd,
     two_vector |-> SetZeroPd, four_vector |-> SetZeroPd,
     result_vector |-> SetZeroPd, sum_vector |-> SetZeroPd,
     idx_vector |-> SetZeroPd,
     iters |-> <<>>, steps |-> 0, terms |-> <<>>]

\* one accumulated term: the lane that added it, the index it stands for,
\* its sign, the denominator that was computed for it, the quotient that
\* was added and the accumulator after the addition
Term(k, idx, sg, d, v, a) ==
    [lane |-> k, index |-> idx, sign |-> sg, den |-> d, value |-> v, acc |-> a]

(***************************************************************************)
(* normal(n), leibniz.c:3-13                                               *)
(***************************************************************************)
\* lines 4-5 and the loop initialiser of line 7
NormalLocals(f) ==
    [f EXCEPT !.pi = PosZero, !.signal = D(-1), !.i = <<>>,
              !.iters = <<>>, !.steps = 0, !.terms = <<>>]

\* line 7: i < n, the unsigned i converted to the wider size_t
NormalCondOffByOne(i, nn) == BCmp(i, nn) <= 0

NormalCond(i, nn) == BLt(i, nn)

\* the integer 2i + 1 that the expression of line 9 stands for
NormalDenMath(i) == BAdd(BShl(i, 1), <<1>>)

\* line 9: the unsigned int expression 2 * i + 1
NormalDen(i) == UIntAdd(UIntMul(B(2), i), B(1))

\* line 8, line 9, and the ++i of line 7 with the history of the iteration
NormalBody(f) ==
    LET f8 == [f EXCEPT !.signal = DNeg(f.signal)]
        q  == DDiv(f8.signal, ToDouble(NormalDen(f8.i)))
        f9 == [f8 EXCEPT !.pi = DAdd(f8.pi, q)]
    IN  [f9 EXCEPT !.i     = UIntAdd(f9.i, B(1)),
                   !.iters = BAdd(f9.iters, B(1)),
                   !.steps = f9.steps + 1,
                   !.terms = Append(f9.terms,
                                    Term(0, f9.i, DSign(f9.signal),
                                         NormalDen(f9.i), q, f9.pi))]

\* line 12
NormalResult(f) == DMul(f.pi, D(4))

(***************************************************************************)
(* simd(n), leibniz.c:15-39                                                *)
(***************************************************************************)
\* line 18
SignalVectorFlipped == SetPd(D(-1), D(1), D(-1), D(1))

SignalVector == SetPd(D(1), D(-1), D(1), D(-1))

\* line 24
IdxVector == SetPd(D(0), D(1), D(2), D(3))

\* lines 16-24 and the loop initialiser of line 26
SimdLocals(f) ==
    [f EXCEPT !.pi = PosZero,
              !.signal_vector = SignalVector,
              !.one_vector    = Set1Pd(D(1)),
              !.two_vector    = Set1Pd(D(2)),
              !.four_vector   = Set1Pd(D(4)),
              !.result_vector = SetZeroPd,
              !.sum_vector    = SetZeroPd,
              !.idx_vector    = IdxVector,
              !.i = <<>>, !.iters = <<>>, !.steps = 0, !.terms = <<>>]

\* line 26: i < n
SimdCondFloor(i, nn) == BCmp(BAdd(i, B(4)), nn) <= 0

SimdCond(i, nn) == BLt(i, nn)

\* line 27
SimdLine27(f) ==
    [f EXCEPT !.sum_vector = FmaddPd(f.two_vector, f.idx_vector, f.one_vector)]

\* line 28
SimdLine28(f) ==
    [f EXCEPT !.sum_vector = DivPd(f.signal_vector, f.sum_vector)]

\* line 30
SimdLine30(f) ==
    [f EXCEPT !.result_vector = AddPd(f.result_vector, f.sum_vector)]

\* line 31
SimdLine31(f) ==
    [f EXCEPT !.idx_vector = AddPd(f.idx_vector, f.four_vector)]

\* the i += 4 of line 26
SimdIncr(f) ==
    [f EXCEPT !.i     = UIntAdd(f.i, B(4)),
              !.iters = BAdd(f.iters, B(1)),
              !.steps = f.steps + 1]

\* the term element k adds in one step: f27 and f30 are the locals after
\* lines 27 and 30
StepTerm(f27, f30, k) ==
    Term(k, DToBig(f27.idx_vector[k]), DSign(f27.signal_vector[k]),
         DToBig(f27.sum_vector[k]), f30.sum_vector[k], f30.result_vector[k])

\* the history of the step, added to the locals f at its end
SimdHistory(f27, f30, f) ==
    [f EXCEPT !.terms = f.terms \o <<StepTerm(f27, f30, 0), StepTerm(f27, f30, 1),
                                     StepTerm(f27, f30, 2), StepTerm(f27, f30, 3)>>]

\* the rest of the step from the locals after line 30
SimdFrom30(f27, f30) == SimdHistory(f27, f30, SimdIncr(SimdLine31(f30)))

\* the rest of the step from the locals after line 27
SimdFrom27(f27) == SimdFrom30(f27, SimdLine30(SimdLine28(f27)))

\* one step: lines 27, 28, 30 and 31, and the i += 4 of line 26
SimdBody(f) == SimdFrom27(SimdLine27(f))

\* lines 34-37: pi += ((r[0] + r[1]) + r[2]) + r[3]
HorizontalSum(v) == DAdd(DAdd(DAdd(v[0], v[1]), v[2]), v[3])

\* lines 34-37: the store into pi
SimdLine34(f) == [f EXCEPT !.pi = DAdd(f.pi, HorizontalSum(f.result_vector))]

\* line 38, from the locals after lines 34-37
SimdResult(f) == DMul(f.pi, D(4))

(***************************************************************************)
(* The calls                                                               *)
(***************************************************************************)
\* arguments followed from the entry of the call: 0 .. MaxN
MaxN == 12

\* number of loop bodies the model follows in one call (more than MaxN, so
\* that a call with n <= MaxN is followed to its return)
MaxSteps == 14

\* arguments of two interleaved calls: 0 .. ParN
ParN == 6

Pow2(k) == BShl(<<1>>, k)

SmallN == {B(k) : k \in 0 .. MaxN}

\* arguments around the two places where 32-bit arithmetic wraps
LargeN ==
    {Pow2(31), BAdd(Pow2(31), B(1)),
     BSub(Pow2(32), B(5)), BSub(Pow2(32), B(4)), BSub(Pow2(32), B(3)),
     BSub(Pow2(32), B(1)), Pow2(32)}

\* normal at the head of its loop with i = 2^31 - 2
\* (pi = 0.7853981632806524, bits 3fe921fb54341fb4)
NormalNear2p31 ==
    [NormalLocals(BlankFrame) EXCEPT
        !.pi     = FromBits(\H3fe9, \H21fb, \H5434, \H1fb4),
        !.signal = D(-1),
        !.i      = BSub(Pow2(31), B(2)),
        !.iters  = BSub(Pow2(31), B(2))]

\* normal at the head of its loop with i = 2^32 - 2
\* (pi = 1.570796326562799, bits 3ff921fb543439fe)
NormalNear2p32 ==
    [NormalLocals(BlankFrame) EXCEPT
        !.pi     = FromBits(\H3ff9, \H21fb, \H5434, \H39fe),
        !.signal = D(-1),
        !.i      = BSub(Pow2(32), B(2)),
        !.iters  = BSub(Pow2(32), B(2))]

\* simd at the head of its loop with i = 2^32 - 8, after 2^30 - 2 steps
SimdNear2p32 ==
    [SimdLocals(BlankFrame) EXCEPT
        !.result_vector =
            SetPd(FromBits(\H400d, \H2ed3, \H1054, \Hb1c9),
                  FromBits(\Hc007, \H8c64, \He3eb, \H666f),
                  FromBits(\H4006, \H3f43, \H87bd, \H90cb),
                  FromBits(\Hc005, \H9932, \Hdf17, \Hcced)),
        !.sum_vector =
            SetPd(FromBits(\H3de0, \H0000, \H00b8, \H0000),
                  FromBits(\Hbde0, \H0000, \H00a8, \H0000),
                  FromBits(\H3de0, \H0000, \H0098, \H0000),
                  FromBits(\Hbde0, \H0000, \H0088, \H0000)),
        !.idx_vector =
            SetPd(ToDouble(BSub(Pow2(32), B(8))), ToDouble(BSub(Pow2(32), B(7))),
                  ToDouble(BSub(Pow2(32), B(6))), ToDouble(BSub(Pow2(32), B(5)))),
        !.i     = BSub(Pow2(32), B(8)),
        !.iters = BSub(Pow2(30), B(2))]

Scenario(f, m, p, fr) == [fn |-> f, n |-> m, pc |-> p, frame |-> fr]

\* a call at its entry
EntryScenarios(args) ==
    {Scenario(f, m, "call", BlankFrame) : f \in {"normal", "simd"}, m \in args}

\* a call deep in its loop; the locals at an iteration are the same for
\* every n the counter has not reached yet
DeepFrames(f) ==
    IF f = "normal" THEN {NormalNear2p31, NormalNear2p32} ELSE {SimdNear2p32}

DeepScenarios ==
    {s \in {Scenario(f, m, "loop", fr) :
                f \in {"normal", "simd"},
                m \in LargeN,
                fr \in DeepFrames("normal") \cup DeepFrames("simd")} :
        s.frame \in DeepFrames(s.fn) /\ BLt(s.frame.i, s.n)}

\* no call
Idle == Scenario("none", <<>>, "idle", BlankFrame)

Init ==
    \E s1 \in EntryScenarios(SmallN \cup LargeN) \cup DeepScenarios,
       s2 \in {Idle} \cup EntryScenarios({B(k) : k \in 0 .. ParN}) :
        /\ s2 # Idle => s1 \in EntryScenarios({B(k) : k \in 0 .. ParN})
        /\ fn = [c \in Calls |-> IF c = 1 THEN s1.fn ELSE s2.fn]
        /\ n = [c \in Calls |-> IF c = 1 THEN s1.n ELSE s2.n]
        /\ pc = [c \in Calls |-> IF c = 1 THEN s1.pc ELSE s2.pc]
        /\ frame = [c \in Calls |-> IF c = 1 THEN s1.frame ELSE s2.frame]
        /\ ret = [c \in Calls |-> PosZero]

NormalEnter(c) ==
    /\ pc[c] = "call"
    /\ fn[c] = "normal"
    /\ frame' = [frame EXCEPT ![Frame(c)] = NormalLocals(@)]
    /\ pc' = [pc EXCEPT ![c] = "loop"]
    /\ UNCHANGED <<fn, n, ret>>

NormalIter(c) ==
    /\ pc[c] = "loop"
    /\ fn[c] = "normal"
    /\ NormalCond(frame[Frame(c)].i, n[c])
    /\ frame[Frame(c)].steps < MaxSteps
    /\ frame' = [frame EXCEPT ![Frame(c)] = NormalBody(@)]
    /\ UNCHANGED <<fn, n, pc, ret>>

NormalReturn(c) ==
    /\ pc[c] = "loop"
    /\ fn[c] = "normal"
    /\ ~NormalCond(frame[Frame(c)].i, n[c])
    /\ ret' = [ret EXCEPT ![c] = NormalResult(frame[Frame(c)])]
    /\ pc' = [pc EXCEPT ![c] = "done"]
    /\ UNCHANGED <<fn, n, frame>>

SimdEnter(c) ==
    /\ pc[c] = "call"
    /\ fn[c] = "simd"
    /\ frame' = [frame EXCEPT ![Frame(c)] = SimdLocals(@)]
    /\ pc' = [pc EXCEPT ![c] = "loop"]
    /\ UNCHANGED <<fn, n, ret>>

SimdIter(c) ==
    /\ pc[c] = "loop"
    /\ fn[c] = "simd"
    /\ SimdCond(frame[Frame(c)].i, n[c])
    /\ frame[Frame(c)].steps < MaxSteps
    /\ frame' = [frame EXCEPT ![Frame(c)] = SimdBody(@)]
    /\ UNCHANGED <<fn, n, pc, ret>>

SimdReturn(c) ==
    /\ pc[c] = "loop"
    /\ fn[c] = "simd"
    /\ ~SimdCond(frame[Frame(c)].i, n[c])
    /\ frame' = [frame EXCEPT ![Frame(c)] = SimdLine34(@)]
    /\ ret' = [ret EXCEPT ![c] = SimdResult(SimdLine34(frame[Frame(c)]))]
    /\ pc' = [pc EXCEPT ![c] = "done"]
    /\ UNCHANGED <<fn, n>>

Next ==
    \E c \in Calls :
        \/ NormalEnter(c)
        \/ NormalIter(c)
        \/ NormalReturn(c)
        \/ SimdEnter(c)
        \/ SimdIter(c)
        \/ SimdReturn(c)

Spec == Init /\ [][Next]_vars

(***************************************************************************)
(* Reference values: the Leibniz series itself                             *)
(***************************************************************************)
\* (-1)^j
Sign(j) == IF BIsOdd(j) THEN -1 ELSE 1

\* the term of the series with index j: its sign, the integer 2j + 1 and
\* the double nearest to their quotient
IsSeriesTerm(t, j) ==
    /\ t.index = j
    /\ t.sign = Sign(j)
    /\ t.den = BAdd(BShl(j, 1), <<1>>)
    /\ t.value = DDiv(D(Sign(j)), ToDouble(BAdd(BShl(j, 1), <<1>>)))

\* the frame's history holds every body the call has executed
FromEntry(f) == f.iters = B(f.steps)

\* the accumulator before the j-th recorded term was added to it, for
\* terms added to `stride` accumulators in turn; `start` is the value of
\* the accumulators before the first recorded term
Before(ts, j, stride, start) ==
    IF j > stride THEN ts[j - stride].acc ELSE start

\* every recorded term but the first `skip` ones was added, as a double,
\* to the accumulator that the term `stride` places earlier had left
SumsInOrder(ts, stride, start, skip) ==
    \A j \in skip + 1 .. Len(ts) :
        ts[j].acc = DAdd(Before(ts, j, stride, start), ts[j].value)

\* in a history that starts at the entry of the call the accumulators start
\* at 0.0; in one that starts later the first terms are not compared
Skip(f, stride) == IF FromEntry(f) THEN 0 ELSE stride

Indices(ts) == {ts[j].index : j \in 1 .. Len(ts)}

\* the terms without the lane that added them
TermSet(ts) ==
    {[index |-> ts[j].index, sign |-> ts[j].sign, den |-> ts[j].den,
      value |-> ts[j].value] : j \in 1 .. Len(ts)}

\* the naturals first, first + 1, ..., first + count - 1
Range(first, count) == {BAdd(first, B(j)) : j \in 0 .. count - 1}

\* the number of bodies executed before the first one of the history
FirstStep(f) == BSub(f.iters, B(f.steps))

Done(c, f) == pc[c] = "done" /\ fn[c] = f

Running(c, f) == pc[c] = "loop" /\ fn[c] = f

\* a call that is past the initialisation of its locals
Entered(c, f) == pc[c] \in {"loop", "done"} /\ fn[c] = f

\* n % 4 and n - n % 4
Mod4(m) == BLow(m, 2)

Floor4(m) == BSub(m, Mod4(m))

(***************************************************************************)
(* C1 (as claimed): whenever normal(n) returns it has executed exactly n   *)
(* iterations, the term added at iteration i is (-1)^i / (2i+1), in order  *)
(* of increasing i from 0, and the result is 4 times the sum of the terms  *)
(* added one after the other.                                              *)
(***************************************************************************)
C1_NormalIsLeibnizSum ==
    \A c \in Calls :
        Done(c, "normal") =>
            LET f == frame[c] IN
            /\ f.iters = n[c]
            /\ \A j \in 1 .. Len(f.terms) :
                   IsSeriesTerm(f.terms[j], BAdd(FirstStep(f), B(j - 1)))
            /\ SumsInOrder(f.terms, 1, PosZero, Skip(f, 1))
            /\ f.pi = Before(f.terms, Len(f.terms) + 1, 1, PosZero)
            /\ ret[c] = DMul(f.pi, D(4))

(***************************************************************************)
(* C5 (as claimed): in normal, the denominator computed at iteration i by  *)
(* the unsigned int expression 2 * i + 1 is the integer 2i + 1: the index  *)
(* arithmetic never wraps.                                                 *)
(***************************************************************************)
C5_DenominatorNeverWraps ==
    \A c \in Calls :
        Entered(c, "normal") =>
            \A j \in 1 .. Len(frame[c].terms) :
                frame[c].terms[j].den = NormalDenMath(frame[c].terms[j].index)

(***************************************************************************)
(* C4 (as claimed): the loops of normal(n) and simd(n) terminate for every *)
(* n.  Each iteration brings the counter nearer to n: after k iterations   *)
(* the counter of normal holds k and the counter of simd 4k, so the exit   *)
(* test i < n fails after n, resp. ceil(n/4), iterations.  A counter that  *)
(* holds less than that has wrapped while i < n still held; the test then  *)
(* sees the values 0, 1, ... (resp. 0, 4, ...) again and never fails.      *)
(***************************************************************************)
C4_LoopsTerminate ==
    \A c \in Calls :
        /\ Running(c, "normal") => frame[c].i = frame[c].iters
        /\ Running(c, "simd") => frame[c].i = BMulSmall(frame[c].iters, 4)

(***************************************************************************)
(* C6: normal(0) returns 0.0 without executing the loop body: no term is   *)
(* accumulated, pi keeps its initial 0.0 and the result is 0.0 * 4.0 =     *)
(* +0.0.                                                                   *)
(***************************************************************************)
C6_NormalZero ==
    \A c \in Calls :
        (Done(c, "normal") /\ n[c] = <<>>) =>
            /\ frame[c].iters = <<>>
            /\ frame[c].terms = <<>>
            /\ frame[c].pi = PosZero
            /\ ret[c] = PosZero

C6_Witness ==
    \E c \in Calls : Done(c, "normal") /\ n[c] = <<>> /\ ret[c] = PosZero

(***************************************************************************)
(* C2 (as claimed): for n a multiple of 4, simd(n) performs exactly n/4    *)
(* steps (after n/4 steps the loop exits, and the call returns with n/4    *)
(* steps done); the terms it has accumulated are the n terms               *)
(* (-1)^i / (2i+1), i = 0..n-1, each index once; its result is 4 times the *)
(* sum of the four lane accumulators, added in the order lane 0, 1, 2, 3;  *)
(* and the terms are the terms normal(n) accumulates.                      *)
(***************************************************************************)
C2_SimdEqualsNormal ==
    \A c \in Calls :
        (fn[c] = "simd" /\ Mod4(n[c]) = <<>>) =>
            LET f == frame[c] IN
            /\ (pc[c] = "loop" /\ BCmp(BMulSmall(f.iters, 4), n[c]) >= 0)
                   => ~SimdCond(f.i, n[c])
            /\ pc[c] = "done" =>
                /\ BMulSmall(f.iters, 4) = n[c]
                /\ Len(f.terms) = 4 * f.steps
                /\ Indices(f.terms)
                       = Range(BMulSmall(FirstStep(f), 4), 4 * f.steps)
                /\ \A j \in 1 .. Len(f.terms) :
                       IsSeriesTerm(f.terms[j], f.terms[j].index)
                /\ f.pi = DAdd(PosZero, HorizontalSum(f.result_vector))
                /\ ret[c] = DMul(f.pi, D(4))
                /\ ret[c] = DMul(HorizontalSum(f.result_vector), D(4))
                /\ SumsInOrder(f.terms, 4, PosZero, Skip(f, 4))
                /\ \A k \in Lanes :
                       f.result_vector[k]
                           = Before(f.terms, Len(f.terms) + 1 + k, 4, PosZero)
                /\ \A d \in Calls :
                       (Done(d, "normal") /\ n[d] = n[c]) =>
                           TermSet(frame[d].terms) = TermSet(f.terms)

(***************************************************************************)
(* C3 (as claimed): for n not a multiple of 4, simd(n) returns having      *)
(* processed only the n - n%4 terms with indices 0 .. n - n%4 - 1.         *)
(***************************************************************************)
C3_DropsRemainder ==
    \A c \in Calls :
        (Done(c, "simd") /\ Mod4(n[c]) # <<>>) =>
            LET f == frame[c] IN
            /\ BMulSmall(f.iters, 4) = Floor4(n[c])
            /\ FromEntry(f) =>
                   /\ B(Len(f.terms)) = Floor4(n[c])
                   /\ Indices(f.terms) = Range(<<>>, Len(f.terms))

(***************************************************************************)
(* C3 (amended): for n not a multiple of 4, whenever simd(n) returns it    *)
(* has run floor(n/4) + 1 steps and accumulated the n + 4 - n%4 terms      *)
(* (-1)^i / (2i+1) with indices 0 .. n + 3 - n%4, each once: the count is  *)
(* rounded UP to the next multiple of 4 and nothing is dropped.  Each lane *)
(* accumulator is the sum of the lane's terms and the result is 4 times    *)
(* the sum of the four accumulators.                                       *)
(***************************************************************************)
C3_RoundsUp ==
    \A c \in Calls :
        (Done(c, "simd") /\ Mod4(n[c]) # <<>>) =>
            LET f == frame[c] IN
            /\ BMulSmall(f.iters, 4) = BAdd(Floor4(n[c]), B(4))
            /\ Len(f.terms) = 4 * f.steps
            /\ Indices(f.terms)
                   = Range(BMulSmall(FirstStep(f), 4), 4 * f.steps)
            /\ \A j \in 1 .. Len(f.terms) :
                   IsSeriesTerm(f.terms[j], f.terms[j].index)
            /\ SumsInOrder(f.terms, 4, PosZero, Skip(f, 4))
            /\ \A k \in Lanes :
                   f.result_vector[k]
                       = Before(f.terms, Len(f.terms) + 1 + k, 4, PosZero)
            /\ f.pi = DAdd(PosZero, HorizontalSum(f.result_vector))
            /\ ret[c] = DMul(f.pi, D(4))
            /\ ret[c] = DMul(HorizontalSum(f.result_vector), D(4))

\* simd(7) has returned after 2 steps with the 8-term result
\* 3.0170718170718178 (the 4-term result is 2.8952380952380956)
C3_Witness ==
    \E c \in Calls :
        /\ Done(c, "simd")
        /\ n[c] = B(7)
        /\ frame[c].iters = B(2)
        /\ Indices(frame[c].terms) = Range(<<>>, 8)
        /\ ret[c] = FromBits(\H4008, \H22f6, \H8c80, \H0dd4)
        /\ ret[c] # FromBits(\H4007, \H2972, \H9729, \H7298)

(***************************************************************************)
(* C9 (as claimed): at the start of every step s, element k of the index   *)
(* vector holds 4s + k.                                                    *)
(***************************************************************************)
C9_LaneKHolds4sPlusK ==
    \A c \in Calls :
        Running(c, "simd") =>
            \A k \in Lanes :
                frame[c].idx_vector[k]
                    = ToDouble(BAdd(BMulSmall(frame[c].iters, 4), B(k)))

(***************************************************************************)
(* C9 (amended): at the start of every step s, element k of the index      *)
(* vector holds 4s + (3 - k): element 0 visits 3, 7, 11, ... and element 3 *)
(* visits 0, 4, 8, ...; the four elements together hold exactly            *)
(* {4s, 4s+1, 4s+2, 4s+3}; and the term element k adds at step s has index *)
(* 4s + (3 - k), so every step advances every element's index by 4.        *)
(***************************************************************************)
C9_LaneKHolds4sPlus3MinusK ==
    \A c \in Calls :
        Entered(c, "simd") =>
            LET f == frame[c] IN
            /\ \A k \in Lanes :
                   f.idx_vector[k]
                       = ToDouble(BAdd(BMulSmall(f.iters, 4), B(3 - k)))
            /\ {DToBig(f.idx_vector[k]) : k \in Lanes}
                   = Range(BMulSmall(f.iters, 4), 4)
            /\ \A j \in 1 .. Len(f.terms) :
                   /\ f.terms[j].lane = (j - 1) % 4
                   /\ f.terms[j].index
                          = BAdd(BMulSmall(BAdd(FirstStep(f), B((j - 1) \div 4)), 4),
                                 B(3 - f.terms[j].lane))

\* a call at the start of step 2: element 0 holds 11, element 3 holds 8
C9_Witness ==
    \E c \in Calls :
        /\ Running(c, "simd")
        /\ frame[c].iters = B(2)
        /\ frame[c].idx_vector[0] = D(11)
        /\ frame[c].idx_vector[3] = D(8)

(***************************************************************************)
(* C10: the sign vector of simd is set at initialisation to                *)
(* (-1, +1, -1, +1) in elements 0..3 and no step changes it; at every step *)
(* the sign of each element agrees with the parity of the index the        *)
(* element holds (+1 even, -1 odd), and every term added is                *)
(* (-1)^index / (2 * index + 1).                                           *)
(***************************************************************************)
C10_LaneSigns ==
    \A c \in Calls :
        Entered(c, "simd") =>
            LET f == frame[c] IN
            /\ f.signal_vector = Vec(D(-1), D(1), D(-1), D(1))
            /\ \A k \in Lanes :
                   f.signal_vector[k] = D(Sign(DToBig(f.idx_vector[k])))
            /\ \A j \in 1 .. Len(f.terms) :
                   IsSeriesTerm(f.terms[j], f.terms[j].index)

\* a call that has added terms of both signs in two steps
C10_Witness ==
    \E c \in Calls :
        /\ Entered(c, "simd")
        /\ frame[c].steps >= 2
        /\ \E j \in 1 .. Len(frame[c].terms) : frame[c].terms[j].sign = 1
        /\ \E j \in 1 .. Len(frame[c].terms) : frame[c].terms[j].sign = -1

(***************************************************************************)
(* C7: calls share no state.  With two calls interleaved in any order,     *)
(* a call that returns has the result, and the locals, of the same call    *)
(* run alone from entry to return; two calls of the same function with the *)
(* same n return the same double.                                          *)
(***************************************************************************)
RECURSIVE NormalAlone(_, _)
NormalAlone(f, nn) ==
    IF NormalCond(f.i, nn) THEN NormalAlone(NormalBody(f), nn) ELSE f

RECURSIVE SimdAlone(_, _)
SimdAlone(f, nn) ==
    IF SimdCond(f.i, nn) THEN SimdAlone(SimdBody(f), nn) ELSE f

\* the final frame of f(nn) run alone
Alone(f, nn) ==
    IF f = "normal" THEN NormalAlone(NormalLocals(BlankFrame), nn)
    ELSE SimdLine34(SimdAlone(SimdLocals(BlankFrame), nn))

AloneResult(f, nn) ==
    IF f = "normal" THEN NormalResult(Alone(f, nn)) ELSE SimdResult(Alone(f, nn))

Interleaved == \A c \in Calls : pc[c] # "idle"

C7_CallsAreIndependent ==
    Interleaved =>
        /\ \A c \in Calls :
               pc[c] = "done" =>
                   /\ frame[c] = Alone(fn[c], n[c])
                   /\ ret[c] = AloneResult(fn[c], n[c])
        /\ \A c, d \in Calls :
               (pc[c] = "done" /\ pc[d] = "done" /\ fn[c] = fn[d] /\ n[c] = n[d])
                   => ret[c] = ret[d]

\* a normal and a simd call, each with iterations to run, have both
\* returned
C7_Witness ==
    /\ Done(1, "normal") /\ Done(2, "simd")
    /\ n[1] = B(5) /\ n[2] = B(5)
    /\ frame[1].steps = 5 /\ frame[2].steps = 2
=============================================================================
